---- MODULE Spec2Model ----
(***************************************************************************)
(* Job queue of the file-converter bot: QueueManager (queue_manager.py),   *)
(* the job table of Database (database.py) and the shared queue, counter   *)
(* and lock of Config (config.py).  The bot runs on one asyncio event      *)
(* loop, so a step of the model is the code a coroutine runs between two   *)
(* suspension points.                                                      *)
(***************************************************************************)
EXTENDS Integers, Sequences, FiniteSets, TLC

\* ---------------------------------------------------------------- bounds
MaxJobs == 3
NumUsers == 2
MaxCalls == 2

\* ------------------------------------------------------ program constants
MAX_CONCURRENT_JOBS == 2

Users == 1..NumUsers
JobIds == 1..MaxJobs
Dispatcher == 0

VARIABLES
    jobs,         \* table conversion_jobs: row j is the job with id j
    banned,       \* column users.is_banned
    queue,        \* Config.processing_queue
    active_jobs,  \* Config.active_jobs
    locked,       \* Config.job_lock is held
    waiters,      \* coroutines waiting for Config.job_lock, in arrival order
    processing,   \* QueueManager.processing
    dpc,          \* where the process_queue coroutine is suspended
    djob,         \* the job process_queue holds while it is suspended
    wpc,          \* where the process_job task of each job is suspended
    notif,        \* per job, the messages sent to its requester, in order
    files,        \* paths that exist under temp/uploads
    launched,     \* per job, how many process_job tasks were created
    decs,         \* per job, how many times its task ran the decrement
    request,      \* input_type and output_format of the job_data in use
    att,          \* per job, the outcomes of the strategies tried so far
    routed,       \* what convert_file decided for the request
    offered,      \* what get_supported_conversions listed for the request
    calls,        \* the calls of the router so far, each with its decision
    log,          \* the calls that raised or returned at once, in order
    history,      \* table history, each row with the job it was written for
    udata,        \* context.user_data of the requester
    hpc,          \* where the handler of the requester's update is suspended
    hfile         \* the upload that handler is working on

\* the state of the router and of the converter
rvars == <<request, att, routed, offered, calls>>

\* the state of the handlers, of their log and of the history table
hvars == <<log, history, udata, hpc, hfile>>

vars == <<jobs, banned, queue, active_jobs, locked, waiters, processing,
          dpc, djob, wpc, notif, files, launched, decs,
          request, att, routed, offered, calls,
          log, history, udata, hpc, hfile>>

\* ------------------------------------------------------------- database
Max0(a) == IF a > 0 THEN a ELSE 0

\* the UPDATE without its WHERE clause: every row is written
update_conversion_job_all_rows(J, job_id, kw) ==
    [k \in DOMAIN J |-> [f \in DOMAIN J[k] |->
        IF f \in DOMAIN kw THEN kw[f] ELSE J[k][f]]]

update_conversion_job(J, job_id, kw) ==
    [J EXCEPT ![job_id] = [f \in DOMAIN J[job_id] |->
        IF f \in DOMAIN kw THEN kw[f] ELSE J[job_id][f]]]

\* the count with status = 'queued' only
get_queued_jobs_count_queued_only(J) ==
    Cardinality({j \in DOMAIN J : J[j].status = "queued"})

get_queued_jobs_count(J) ==
    Cardinality({j \in DOMAIN J : J[j].status \in {"queued", "processing"}})

\* the user's queued and processing rows, oldest first, each with the
\* queue_position stored in it
get_user_queued_jobs(J, user_id) ==
    LET ids == SelectSeq([i \in 1..Len(J) |-> i],
                         LAMBDA i : /\ J[i].user_id = user_id
                                    /\ J[i].status \in {"queued", "processing"})
    IN [k \in 1..Len(ids) |->
            [id |-> ids[k], status |-> J[ids[k]].status,
             progress |-> J[ids[k]].progress,
             queue_position |-> J[ids[k]].queue_position]]

\* the NULL of the column output_file_path
NoPath == <<>>

add_conversion_job(J, user_id, input_file_path, queue_position) ==
    Append(J, [user_id |-> user_id,
               input_file_path |-> input_file_path,
               status |-> "queued",
               progress |-> 0,
               error_message |-> "",
               output_file_path |-> NoPath,
               queue_position |-> queue_position])

\* the lookup never reports a ban
is_banned_never(B, user_id) == FALSE

\* the flag is read the wrong way round
is_banned_inverted(B, user_id) == ~B[user_id]

is_banned(B, user_id) == B[user_id]

\* ------------------------------------------------------------ Config
\* a LIFO queue
queue_put_front(q, job_id) == <<job_id>> \o q

queue_put(q, job_id) == Append(q, job_id)
queue_get_item(q) == Head(q)

\* the head is read but left on the queue
queue_get_rest_peek(q) == q

queue_get_rest(q) == Tail(q)

\* the comparison with > for >=
AtCapacity_off_by_one(a) == a > MAX_CONCURRENT_JOBS

AtCapacity(a) == a >= MAX_CONCURRENT_JOBS
\* two slots are given back for one task
release_slot_twice(a) == Max0(a - 2)

\* the slot is never given back
release_slot_never(a) == a

release_slot(a) == Max0(a - 1)

\* a queue of at most MAX_CONCURRENT_JOBS items
queue_full_bounded(q) == Len(q) >= MAX_CONCURRENT_JOBS

\* asyncio.Queue() has maxsize 0: put never finds the queue full
queue_full(q) == FALSE

\* asyncio.Lock.acquire returns at once only when the lock is free and
\* nobody waits for it
LockFree(l, w) == ~l /\ w = <<>>

\* ------------------------------------------------------------ helpers
\* os.remove left out
cleanup_files_keep(F, file_path) == F

cleanup_files(F, file_path) == F \ {file_path}

send_status_update(N, job_id, kind) ==
    [N EXCEPT ![job_id] = Append(N[job_id], kind)]

\* the ban notice is followed by the generic failure message
send_ban_notification_twice(N, job_id) ==
    [N EXCEPT ![job_id] = Append(Append(N[job_id], "ban"), "fail")]

send_ban_notification(N, job_id) ==
    [N EXCEPT ![job_id] = Append(N[job_id], "ban")]

\* handle_file line 106: temp/uploads/<user_id>_<time to the second>.<ext>;
\* stamp numbers the distinct seconds in which the user has uploaded
upload_path(user_id, stamp) == <<user_id, stamp>>

\* user ids are opaque: users are numbered in the order of their first upload
known_users(J) == Cardinality({J[j].user_id : j \in DOMAIN J})

\* the stamp of the latest upload of user_id among the jobs J, 0 if none
last_stamp(J, user_id) ==
    LET S == {J[j].input_file_path[2] : j \in {k \in DOMAIN J : J[k].user_id = user_id}}
    IN IF S = {} THEN 0 ELSE CHOOSE m \in S : \A x \in S : x <= m

\* the admission stores the status and leaves the progress at 0
MarkProcessing_progress_0(J, job_id) ==
    update_conversion_job(J, job_id, [status |-> "processing"])

MarkProcessing(J, job_id) ==
    update_conversion_job(J, job_id, [status |-> "processing", progress |-> 10])

\* the output of a routine lies next to the input, under its name with
\* the extension of the output format (lines 74, 427, 571, 629, 1201)
output_path(input_path) == <<input_path[1], input_path[2], 0>>

\* the routine left no file on the disk
write_output_nothing(F, input_path) == F

\* a routine that returns a usable file has written it to its output path
write_output(F, input_path) == F \cup {output_path(input_path)}

\* the completion stores the progress of the last update that was sent
MarkCompleted_progress_50(J, job_id) ==
    update_conversion_job(J, job_id,
        [status |-> "completed", progress |-> 50,
         output_file_path |-> output_path(J[job_id].input_file_path)])

MarkCompleted(J, job_id) ==
    update_conversion_job(J, job_id,
        [status |-> "completed", progress |-> 100,
         output_file_path |-> output_path(J[job_id].input_file_path)])

\* the failure also stores the progress 0 that is sent to the requester
MarkFailed_progress_0(J, job_id, msg) ==
    update_conversion_job(J, job_id,
        [status |-> "failed", error_message |-> msg, progress |-> 0])

\* the failure is stored without its message
MarkFailed_no_message(J, job_id, msg) ==
    update_conversion_job(J, job_id, [status |-> "failed"])

MarkFailed(J, job_id, msg) ==
    update_conversion_job(J, job_id, [status |-> "failed", error_message |-> msg])

\* ------------------------------------------------------------ formats
\* Config.SUPPORTED_FORMATS; CategoryOrder is the order of its keys
CategoryOrder == <<"image", "audio", "video", "document", "presentation">>

\* the table with gif listed under video as well as under image
SUPPORTED_FORMATS_gif_twice ==
    [image |-> {"png", "jpg", "jpeg", "bmp", "gif"},
     audio |-> {"mp3", "wav", "aac"},
     video |-> {"mp4", "avi", "mov", "mkv", "gif"},
     document |-> {"pdf", "docx", "txt", "xlsx", "odt"},
     presentation |-> {"pptx", "ppt"}]

SUPPORTED_FORMATS ==
    [image |-> {"png", "jpg", "jpeg", "bmp", "gif"},
     audio |-> {"mp3", "wav", "aac"},
     video |-> {"mp4", "avi", "mov", "mkv"},
     document |-> {"pdf", "docx", "txt", "xlsx", "odt"},
     presentation |-> {"pptx", "ppt"}]

CONVERSION_MAP ==
    [image |-> [png |-> {"jpg", "jpeg", "bmp", "gif", "pdf"},
                jpg |-> {"png", "jpeg", "bmp", "gif", "pdf"},
                jpeg |-> {"png", "jpg", "bmp", "gif", "pdf"},
                bmp |-> {"png", "jpg", "jpeg", "gif", "pdf"},
                gif |-> {"png", "jpg", "jpeg", "bmp", "pdf"}],
     audio |-> [mp3 |-> {"wav", "aac"},
                wav |-> {"mp3", "aac"},
                aac |-> {"mp3", "wav"}],
     video |-> [mp4 |-> {"avi", "mov", "mkv", "gif"},
                avi |-> {"mp4", "mov", "mkv"},
                mov |-> {"mp4", "avi", "mkv"},
                mkv |-> {"mp4", "avi", "mov"}],
     document |-> [pdf |-> {"docx", "txt", "xlsx"},
                   docx |-> {"pdf", "txt"},
                   txt |-> {"pdf", "docx"},
                   xlsx |-> {"pdf"},
                   odt |-> {"pdf"}],
     presentation |-> [pptx |-> {"pdf"},
                       ppt |-> {"pdf"}]]

\* the value of dict.get for a missing key
NoCategory == "None"

\* the positions in SUPPORTED_FORMATS of the categories that list ext
holders(ext) ==
    {i \in DOMAIN CategoryOrder : ext \in SUPPORTED_FORMATS[CategoryOrder[i]]}

\* UniversalConverter.supported_formats.get(ext): __init__ fills the dict
\* category by category, so the last category that lists ext wins
supported_formats(ext) ==
    IF holders(ext) = {} THEN NoCategory
    ELSE CategoryOrder[CHOOSE i \in holders(ext) : \A k \in holders(ext) : k <= i]

\* QueueManager._get_file_category: the first category that lists ext,
\* 'document' when none does
_get_file_category(ext) ==
    IF holders(ext) = {} THEN "document"
    ELSE CategoryOrder[CHOOSE i \in holders(ext) : \A k \in holders(ext) : i <= k]

\* handlers.start.detect_file_type: the first category that lists the
\* extension, 'unknown' when none does
detect_file_type(file_extension) ==
    IF holders(file_extension) = {} THEN "unknown"
    ELSE CategoryOrder[CHOOSE i \in holders(file_extension) :
                            \A k \in holders(file_extension) : i <= k]

get_conversion_timeout(category) ==
    CASE category = "image" -> 300
      [] category = "audio" -> 600
      [] category = "video" -> 1800
      [] category = "document" -> 600
      [] category = "presentation" -> 600
      [] OTHER -> 1800

\* ------------------------------------------------------------ ConverterRouter
unsupported_formats ==
    {"torrent", "zip", "rar", "7z", "tar", "gz", "bz2", "xz", "iso", "dmg",
     "exe", "app", "deb", "rpm", "msi", "apk"}

get_file_category(ext) ==
    IF ext \in unsupported_formats \/ holders(ext) = {} THEN NoCategory
    ELSE CategoryOrder[CHOOSE i \in holders(ext) : \A k \in holders(ext) : i <= k]

\* the common formats in the opposite order
common_formats_reversed == <<"webp", "txt", "docx", "mp4", "mp3", "png", "jpg", "pdf">>

common_formats == <<"pdf", "jpg", "png", "mp3", "mp4", "docx", "txt", "webp">>

\* the orders in which a Python set with the elements S can be iterated
RECURSIVE set_orders(_)
set_orders(S) ==
    IF S = {} THEN {<<>>}
    ELSE UNION {{<<x>> \o p : p \in set_orders(S \ {x})} : x \in S}

\* lines 87-123: the targets collected for input_extension, as a set
supported_targets(input_extension) ==
    LET input_category == get_file_category(input_extension)
        declared ==
            IF input_extension \in DOMAIN CONVERSION_MAP[input_category]
            THEN CONVERSION_MAP[input_category][input_extension] ELSE {}
        cross ==
            IF input_category = "image" THEN {"pdf", "jpg", "png", "webp", "bmp"}
            ELSE IF input_extension = "pdf" THEN {"jpg", "png", "docx", "txt", "html"}
            ELSE IF input_category = "video" THEN {"mp3", "wav", "gif", "mp4", "avi"}
            ELSE IF input_extension = "docx" THEN {"pdf", "txt"}
            ELSE IF input_extension \in {"xlsx", "xls"} THEN {"pdf"}
            ELSE IF input_extension \in {"pptx", "ppt"} THEN {"pdf"}
            ELSE {}
        basic ==
            IF input_category = "image"
            THEN {"jpg", "png", "webp", "bmp", "gif", "tiff", "jpeg"} \ {input_extension}
            ELSE IF input_category = "audio"
            THEN {"mp3", "wav", "ogg", "flac", "m4a"} \ {input_extension}
            ELSE IF input_category = "video"
            THEN {"mp4", "avi", "mov", "webm", "mkv"} \ {input_extension}
            ELSE IF input_category = "document"
            THEN {"pdf", "txt", "docx", "html"} \ {input_extension}
            ELSE {}
    IN (declared \cup cross \cup basic) \ unsupported_formats

\* The lists the call can return: the common formats first, then the
\* others in the order in which list(set(supported)) happens to iterate,
\* which depends on the hash seed of the process; cut to 15 entries.
get_supported_conversions(input_extension) ==
    IF get_file_category(input_extension) = NoCategory THEN {<<>>}
    ELSE LET supported == supported_targets(input_extension)
             is_common(f) == \E i \in DOMAIN common_formats : common_formats[i] = f
             head == SelectSeq(common_formats, LAMBDA f : f \in supported)
             cut(l) == SubSeq(l, 1, IF Len(l) < 15 THEN Len(l) ELSE 15)
         IN {cut(head \o rest) :
                rest \in set_orders({f \in supported : ~is_common(f)})}

\* ------------------------------------------------------------ UniversalConverter
\* What convert_file does with a pair of formats: the message of the error
\* it raises before any routine runs, or the routines that are tried, in
\* order (more than one when a routine falls back to another).
Raises(msg) == [error |-> msg, plan |-> <<>>]
Runs(plan) == [error |-> "", plan |-> plan]

\* routines that await an external command (ffmpeg, libreoffice)
CommandRoutines ==
    {"_convert_audio", "_convert_video", "_convert_video_to_gif_ffmpeg",
     "_convert_video_to_gif_fallback", "_docx_to_pdf_advanced",
     "_excel_to_pdf_advanced", "_odt_to_pdf_advanced", "_ppt_to_pdf_advanced"}

_convert_video_to_gif_ffmpeg ==
    Runs(<<"_convert_video_to_gif_ffmpeg", "_convert_video_to_gif_fallback">>)

_convert_to_animated_gif(input_ext) ==
    IF input_ext \in {"mp4", "avi", "mov", "mkv"} THEN _convert_video_to_gif_ffmpeg
    ELSE IF input_ext \in {"jpg", "jpeg", "png", "bmp"}
    THEN Runs(<<"_convert_image_to_animated_gif">>)
    ELSE Raises("to GIF not supported")

_convert_gif_to_static(output_format) ==
    IF output_format = "pdf" THEN Runs(<<"_image_to_pdf_advanced">>)
    ELSE Runs(<<"_convert_gif_to_static">>)

\* every output format that is neither pdf nor gif ends in a save by PIL
_convert_image(output_format, input_extension) ==
    IF input_extension = "gif" THEN _convert_gif_to_static(output_format)
    ELSE IF output_format = "pdf" THEN Runs(<<"_image_to_pdf_advanced">>)
    ELSE IF output_format = "gif" THEN _convert_to_animated_gif(input_extension)
    ELSE Runs(<<"_convert_image">>)

\* ffmpeg is run whatever the output format is
_convert_audio(output_format, input_extension) == Runs(<<"_convert_audio">>)

_convert_video(output_format, input_extension) ==
    IF output_format = "gif" THEN _convert_video_to_gif_ffmpeg
    ELSE Runs(<<"_convert_video">>)

_convert_document(output_format, input_extension) ==
    CASE input_extension = "pdf" /\ output_format = "txt" ->
            Runs(<<"_pdf_to_text_advanced">>)
      [] input_extension = "pdf" /\ output_format \in {"jpg", "jpeg", "png"} ->
            Runs(<<"_pdf_to_images_advanced">>)
      [] input_extension = "pdf" /\ output_format = "docx" ->
            Runs(<<"_pdf_to_docx_advanced">>)
      [] input_extension = "pdf" /\ output_format = "xlsx" ->
            Runs(<<"_pdf_to_excel_advanced">>)
      [] input_extension = "txt" /\ output_format = "pdf" ->
            Runs(<<"_text_to_pdf_advanced", "_text_to_pdf_simple">>)
      [] input_extension = "txt" /\ output_format = "docx" ->
            Runs(<<"_text_to_docx_advanced">>)
      [] input_extension = "txt" /\ output_format = "xlsx" ->
            Runs(<<"_text_to_excel_advanced">>)
      [] input_extension = "docx" /\ output_format = "pdf" ->
            Runs(<<"_docx_to_pdf_advanced">>)
      [] input_extension = "docx" /\ output_format = "txt" ->
            Runs(<<"_docx_to_text_advanced">>)
      [] input_extension = "docx" /\ output_format = "xlsx" ->
            Runs(<<"_docx_to_excel_advanced">>)
      [] input_extension = "xlsx" /\ output_format = "pdf" ->
            Runs(<<"_excel_to_pdf_advanced">>)
      [] input_extension = "xlsx" /\ output_format = "txt" ->
            Runs(<<"_excel_to_text_advanced">>)
      [] input_extension = "xlsx" /\ output_format = "docx" ->
            Runs(<<"_excel_to_docx_advanced">>)
      [] input_extension = "odt" /\ output_format = "pdf" ->
            Runs(<<"_odt_to_pdf_advanced">>)
      [] OTHER -> Raises("not implemented")

\* only pptx has a routine
_convert_presentation_pptx_only(output_format, input_extension) ==
    IF output_format = "pdf" /\ input_extension = "pptx"
    THEN Runs(<<"_ppt_to_pdf_advanced">>)
    ELSE Raises("not implemented")

_convert_presentation(output_format, input_extension) ==
    IF output_format = "pdf" /\ input_extension \in {"pptx", "ppt"}
    THEN Runs(<<"_ppt_to_pdf_advanced">>)
    ELSE Raises("not implemented")

convert_file(output_format, input_extension) ==
    LET input_category == supported_formats(input_extension)
        output_category == supported_formats(output_format)
    IN IF input_category = NoCategory THEN Raises("Unsupported input format")
       ELSE IF output_category = NoCategory THEN Raises("Unsupported output format")
       ELSE IF input_category = "image"
       THEN _convert_image(output_format, input_extension)
       ELSE IF input_category = "audio"
       THEN _convert_audio(output_format, input_extension)
       ELSE IF input_category = "video"
       THEN _convert_video(output_format, input_extension)
       ELSE IF input_category = "document"
       THEN _convert_document(output_format, input_extension)
       ELSE _convert_presentation(output_format, input_extension)

\* how a routine that was tried can end: it returns the path of a non-empty
\* file (ok), it raises (error), its command runs into the timeout of
\* _run_command or of the routine's own wait_for (cmd_timeout), or it
\* returns a path at which there is no file or an empty one (empty)
Outcomes(routine) ==
    IF routine \in CommandRoutines
    THEN {"ok", "error", "cmd_timeout", "empty"}
    ELSE {"ok", "error", "empty"}

\* the failure of the first routine is written to the job
fallback_warning_stored(J, job_id) ==
    update_conversion_job(J, job_id, [error_message |-> "first routine failed"])

\* lines 307 and 875: the failure that leads to the fallback is logged and
\* nothing else
fallback_warning(J, job_id) == J

\* only an error of the routine leads to the fallback
falls_back_not_on_timeout(r) == r = "error"

\* `except Exception` of a routine with a fallback (lines 306-309 and
\* 874-880) catches what the routine raised, the 'Command timeout' of
\* _run_command included; a path that was returned is not looked at
falls_back(r) == r \in {"error", "cmd_timeout"}

\* the requests made to the router and to the queue
Formats ==
    UNION {SUPPORTED_FORMATS[c] : c \in DOMAIN SUPPORTED_FORMATS}
    \cup {"webp", "tiff", "ogg", "flac", "m4a", "webm", "html", "xls", "zip", "bin"}

Request(input_type, output_format) ==
    [input_type |-> input_type, output_format |-> output_format]

\* the jobs of Spec: one routine, run by an external command
DefaultRequest == Request("mp4", "avi")
NotRouted == [error |-> "not routed", plan |-> <<>>]
NotAsked == <<"not asked">>

\* ------------------------------------------------------------ handlers' state
\* context.user_data with the keys the handlers read; "" and NoPath stand
\* for a key that is not in the dictionary
NoFile == [path |-> NoPath, extension |-> ""]

NoUserData ==
    [conversion_type |-> "", input_format |-> "", output_format |-> "",
     file_type |-> "", expecting_followup_upload |-> FALSE,
     detected_file_info |-> NoFile]

\* no update is being handled, nothing was logged, no history row exists
HandlerInit ==
    /\ log = <<>>
    /\ history = <<>>
    /\ udata = NoUserData
    /\ hpc = "idle"
    /\ hfile = NoFile

\* ------------------------------------------------------------ Init
\* the queue, the job table and the tasks after construction
QueueInit ==
    /\ jobs = <<>>
    /\ banned = [u \in Users |-> FALSE]
    /\ queue = <<>>
    /\ active_jobs = 0
    /\ locked = FALSE
    /\ waiters = <<>>
    /\ processing = FALSE
    /\ dpc = "idle"
    /\ djob = 0
    /\ wpc = [j \in JobIds |-> "none"]
    /\ notif = [j \in JobIds |-> <<>>]
    /\ files = {}
    /\ launched = [j \in JobIds |-> 0]
    /\ decs = [j \in JobIds |-> 0]
    /\ HandlerInit

\* Spec leaves the outcome of a conversion open and does not look at the
\* formats of its jobs
Init ==
    /\ QueueInit
    /\ request = DefaultRequest
    /\ att = [j \in JobIds |-> <<>>]
    /\ routed = NotRouted
    /\ offered = NotAsked
    /\ calls = <<>>

\* ------------------------------------------------------------ environment
ban_user(u) ==
    /\ ~banned[u]
    /\ banned' = [banned EXCEPT ![u] = TRUE]
    /\ UNCHANGED <<jobs, queue, active_jobs, locked, waiters, processing,
                   dpc, djob, wpc, notif, files, launched, decs>>
    /\ UNCHANGED <<rvars, hvars>>

\* ------------------------------------------------------------ add_to_queue
\* handle_file stores the upload under temp/uploads and process_file_directly
\* hands it to add_to_queue; nothing suspends between the end of the
\* download and the return of add_to_queue.
\* same_second: the upload falls in the same second as the user's previous
\* one, so that both get the same path.
add_to_queue(u, same_second) ==
    /\ Len(jobs) < MaxJobs
    /\ ~is_banned(banned, u)
    /\ u <= known_users(jobs) + 1
    /\ ~queue_full(queue)
    /\ same_second => last_stamp(jobs, u) > 0
    /\ LET stamp == IF same_second THEN last_stamp(jobs, u)
                                   ELSE last_stamp(jobs, u) + 1
           p == upload_path(u, stamp)
           queue_position == get_queued_jobs_count(jobs) + 1
           job_id == Len(jobs) + 1
       IN /\ files' = files \cup {p}
          /\ jobs' = add_conversion_job(jobs, u, p, queue_position)
          /\ queue' = queue_put(queue, job_id)
    /\ UNCHANGED <<banned, active_jobs, locked, waiters, processing, dpc,
                   djob, wpc, notif, launched, decs>>
    /\ UNCHANGED <<rvars, hvars>>

\* ------------------------------------------------------------ process_queue
\* Top of the while loop (lines 60-65) with a slots in use and w waiting for
\* the lock: take job_lock, then either sleep one second with the lock held
\* or release it and wait for the next job.
LoopTop(a, w) ==
    IF LockFree(FALSE, w)
    THEN /\ waiters' = w
         /\ IF AtCapacity(a)
            THEN locked' = TRUE /\ dpc' = "sleep"
            ELSE locked' = FALSE /\ dpc' = "get"
    ELSE /\ waiters' = Append(w, Dispatcher)
         /\ locked' = FALSE
         /\ dpc' = "lockwait"

\* post_init creates the process_queue task
process_queue ==
    /\ dpc = "idle"
    /\ ~processing
    /\ processing' = TRUE
    /\ LoopTop(active_jobs, waiters)
    /\ UNCHANGED <<jobs, banned, queue, active_jobs, djob, wpc, notif,
                   files, launched, decs>>
    /\ UNCHANGED <<rvars, hvars>>

\* asyncio.sleep(1) returns; the lock is released on the way to `continue`
DispatcherWake ==
    /\ dpc = "sleep"
    /\ LoopTop(active_jobs, waiters)
    /\ UNCHANGED <<jobs, banned, queue, active_jobs, processing, djob, wpc,
                   notif, files, launched, decs>>
    /\ UNCHANGED <<rvars, hvars>>

\* the dispatcher is handed job_lock after having waited for it
DispatcherLockGranted ==
    /\ dpc = "lockwait"
    /\ ~locked
    /\ waiters # <<>>
    /\ Head(waiters) = Dispatcher
    /\ waiters' = Tail(waiters)
    /\ IF AtCapacity(active_jobs)
       THEN locked' = TRUE /\ dpc' = "sleep"
       ELSE locked' = FALSE /\ dpc' = "get"
    /\ UNCHANGED <<jobs, banned, queue, active_jobs, processing, djob, wpc,
                   notif, files, launched, decs>>
    /\ UNCHANGED <<rvars, hvars>>

\* wait_for(processing_queue.get(), 1.0) times out on an empty queue
DispatcherTimeout ==
    /\ dpc = "get"
    /\ queue = <<>>
    /\ LoopTop(active_jobs, waiters)
    /\ UNCHANGED <<jobs, banned, queue, active_jobs, processing, djob, wpc,
                   notif, files, launched, decs>>
    /\ UNCHANGED <<rvars, hvars>>

\* the cancelled job takes a slot as if it had been started
slots_after_ban_one_more(a) == a + 1

\* lines 75-81 end with `continue`, before the increment of line 88
slots_after_ban(a) == a

\* lines 69-81: the pulled job belongs to a banned user
DispatcherBanned ==
    /\ dpc = "get"
    /\ queue # <<>>
    /\ LET j == queue_get_item(queue) IN
        /\ is_banned(banned, jobs[j].user_id)
        /\ queue' = queue_get_rest(queue)
        /\ jobs' = MarkFailed(jobs, j, "User account banned")
        /\ notif' = send_ban_notification(notif, j)
        /\ active_jobs' = slots_after_ban(active_jobs)
        /\ djob' = j
        /\ dpc' = "ban_notify"
    /\ UNCHANGED <<banned, locked, waiters, processing, wpc,
                   files, launched, decs>>
    /\ UNCHANGED <<rvars, hvars>>

\* send_ban_notification returned: cleanup_files, then `continue`
DispatcherBanNotified ==
    /\ dpc = "ban_notify"
    /\ files' = cleanup_files(files, jobs[djob].input_file_path)
    /\ djob' = 0
    /\ LoopTop(active_jobs, waiters)
    /\ UNCHANGED <<jobs, banned, queue, active_jobs, processing, wpc, notif,
                   launched, decs>>
    /\ UNCHANGED <<rvars, hvars>>

\* lines 86-95 once job_lock is held: count the job, create its task
Launch(j) ==
    /\ active_jobs' = active_jobs + 1
    /\ wpc' = [wpc EXCEPT ![j] = "start"]
    /\ launched' = [launched EXCEPT ![j] = @ + 1]

\* lines 69-95: the pulled job is marked processing; the dispatcher takes
\* job_lock at line 87, waiting for it when a woken task is still ahead
DispatcherAdmit ==
    /\ dpc = "get"
    /\ queue # <<>>
    /\ LET j == queue_get_item(queue) IN
        /\ ~is_banned(banned, jobs[j].user_id)
        /\ queue' = queue_get_rest(queue)
        /\ jobs' = MarkProcessing(jobs, j)
        /\ IF LockFree(locked, waiters)
           THEN /\ Launch(j)
                /\ LoopTop(active_jobs + 1, waiters)
                /\ UNCHANGED djob
           ELSE /\ waiters' = Append(waiters, Dispatcher)
                /\ dpc' = "lockwait_admit"
                /\ djob' = j
                /\ UNCHANGED <<active_jobs, wpc, launched, locked>>
    /\ UNCHANGED <<banned, processing, notif, files, decs>>
    /\ UNCHANGED <<rvars, hvars>>

\* the dispatcher is handed job_lock at line 87
DispatcherAdmitGranted ==
    /\ dpc = "lockwait_admit"
    /\ ~locked
    /\ waiters # <<>>
    /\ Head(waiters) = Dispatcher
    /\ Launch(djob)
    /\ djob' = 0
    /\ LoopTop(active_jobs + 1, Tail(waiters))
    /\ UNCHANGED <<jobs, banned, queue, processing, notif, files, decs>>
    /\ UNCHANGED <<rvars, hvars>>

\* ------------------------------------------------------------ process_job
\* except branch (lines 167-180): record the failure, tell the requester
Fail(j, msg) ==
    /\ jobs' = MarkFailed(jobs, j, msg)
    /\ notif' = send_status_update(notif, j, "fail")
    /\ wpc' = [wpc EXCEPT ![j] = "notify_fail"]

\* lines 105-131 and 199-218: first run of the task.  The ban check, then the
\* 20% update, then wait_for starts perform_professional_conversion, which
\* sends the 50% update and awaits universal_converter.convert_file.  The
\* task touches nothing but its own messages between these suspensions, so
\* "converting" stands for all three of them.
WorkerStart(j) ==
    /\ wpc[j] = "start"
    /\ IF is_banned(banned, jobs[j].user_id)
       THEN Fail(j, "User account banned during processing")
       ELSE /\ notif' = send_status_update(send_status_update(notif, j, "p20"), j, "p50")
            /\ wpc' = [wpc EXCEPT ![j] = "converting"]
            /\ UNCHANGED jobs
    /\ UNCHANGED <<banned, queue, active_jobs, locked, waiters, processing,
                   dpc, djob, files, launched, decs>>
    /\ UNCHANGED <<rvars, hvars>>

\* lines 132-133: the category timeout expires inside wait_for
WorkerTimeout(j) ==
    /\ wpc[j] = "converting"
    /\ Fail(j, "Professional conversion timeout")
    /\ UNCHANGED <<banned, queue, active_jobs, locked, waiters, processing,
                   dpc, djob, files, launched, decs>>
    /\ UNCHANGED <<rvars, hvars>>

\* lines 218-233 and 135-165: perform_professional_conversion returns the
\* path of a non-empty output file (ok), or raises because convert_file
\* raised or left no output or an empty one.  A usable output needs the
\* input file to be there.
WorkerConverted(j, ok) ==
    /\ wpc[j] = "converting"
    /\ ok => jobs[j].input_file_path \in files
    /\ IF ok
       THEN /\ jobs' = MarkCompleted(jobs, j)
            /\ notif' = send_status_update(notif, j, "done")
            /\ wpc' = [wpc EXCEPT ![j] = "notify_done"]
            /\ files' = write_output(files, jobs[j].input_file_path)
       ELSE Fail(j, "Conversion failed") /\ UNCHANGED files
    /\ UNCHANGED <<banned, queue, active_jobs, locked, waiters, processing,
                   dpc, djob, launched, decs>>
    /\ UNCHANGED <<rvars, hvars>>

\* the INSERT of add_to_history raised: the error is logged, no row is
\* written
add_to_history_failed(H, J, job_id) == H

\* every call writes its row a second time
add_to_history_twice(H, J, job_id) ==
    H \o << [job |-> job_id, user_id |-> J[job_id].user_id, success |-> TRUE],
            [job |-> job_id, user_id |-> J[job_id].user_id, success |-> TRUE] >>

\* add_to_history (lines 389-412): one row with success = True.  The table
\* has no column for the job; `job` keeps which job the row was written for.
add_to_history(H, J, job_id) ==
    Append(H, [job |-> job_id, user_id |-> J[job_id].user_id, success |-> TRUE])

\* line 160 is reached on the completion branch only, once the completion
\* message has been sent or has failed to be sent
history_after_message(H, J, job_id, inserted) ==
    IF J[job_id].status # "completed" THEN H
    ELSE IF inserted THEN add_to_history(H, J, job_id)
    ELSE add_to_history_failed(H, J, job_id)

\* finally branch once job_lock is held (lines 184-188)
Finalize(j) ==
    /\ active_jobs' = release_slot(active_jobs)
    /\ decs' = [decs EXCEPT ![j] = @ + 1]
    /\ files' = cleanup_files(files, jobs[j].input_file_path)
    /\ wpc' = [wpc EXCEPT ![j] = "done"]

\* the terminal message was sent (or failed to be sent): a completed job is
\* added to the history, then the task reaches its finally branch and asks
\* for job_lock
AfterMessage(j, inserted) ==
    /\ history' = history_after_message(history, jobs, j, inserted)
    /\ IF LockFree(locked, waiters)
       THEN Finalize(j) /\ UNCHANGED waiters
       ELSE /\ waiters' = Append(waiters, j)
            /\ wpc' = [wpc EXCEPT ![j] = "wait_lock"]
            /\ UNCHANGED <<active_jobs, decs, files>>
    /\ UNCHANGED <<banned, queue, locked, processing, dpc, djob, notif,
                   launched>>
    /\ UNCHANGED <<rvars, log, udata, hpc, hfile>>

WorkerNotified(j) ==
    /\ wpc[j] \in {"notify_done", "notify_fail"}
    /\ AfterMessage(j, TRUE)
    /\ UNCHANGED jobs

\* the completion message was sent and the INSERT of add_to_history
\* raises; the log keeps each such error
WorkerHistoryError(j) ==
    /\ wpc[j] = "notify_done"
    /\ Len(log) < MaxCalls
    /\ history' = history_after_message(history, jobs, j, FALSE)
    /\ log' = Append(log, [call |-> "add_to_history", result |-> "raised"])
    /\ IF LockFree(locked, waiters)
       THEN Finalize(j) /\ UNCHANGED waiters
       ELSE /\ waiters' = Append(waiters, j)
            /\ wpc' = [wpc EXCEPT ![j] = "wait_lock"]
            /\ UNCHANGED <<active_jobs, decs, files>>
    /\ UNCHANGED <<jobs, banned, queue, locked, processing, dpc, djob, notif,
                   launched>>
    /\ UNCHANGED <<rvars, udata, hpc, hfile>>

\* the task is handed job_lock after having waited for it
WorkerLockGranted(j) ==
    /\ wpc[j] = "wait_lock"
    /\ ~locked
    /\ waiters # <<>>
    /\ Head(waiters) = j
    /\ waiters' = Tail(waiters)
    /\ Finalize(j)
    /\ UNCHANGED <<jobs, banned, queue, locked, processing, dpc, djob,
                   notif, launched>>
    /\ UNCHANGED <<rvars, hvars>>

\* ------------------------------------------------------------ delivery errors
\* the error of the delivery is raised again and fails the job
send_error_reraised(J, job_id) == MarkFailed(J, job_id, "send failed")

\* `except Exception` of send_status_update and of send_ban_notification
\* (lines 370-371 and 386-387): the error is logged, the job table is not
\* written
send_error_logged(J, job_id) == J

\* the last message for job_id did not reach the requester
undelivered(N, job_id) ==
    [N EXCEPT ![job_id] = SubSeq(@, 1, Len(@) - 1) \o <<"lost">>]

\* Telegram answers the terminal message of the task with an error, which
\* is raised inside send_status_update
WorkerSendError(j) ==
    /\ wpc[j] \in {"notify_done", "notify_fail"}
    /\ notif' = undelivered(notif, j)
    /\ wpc' = [wpc EXCEPT ![j] = "send_error"]
    /\ UNCHANGED <<jobs, banned, queue, active_jobs, locked, waiters,
                   processing, dpc, djob, files, launched, decs>>
    /\ UNCHANGED <<rvars, hvars>>

\* the error is caught inside send_status_update, which returns; the task
\* goes on to its finally branch and asks for job_lock
WorkerSendErrorCaught(j) ==
    /\ wpc[j] = "send_error"
    /\ jobs' = send_error_logged(jobs, j)
    /\ AfterMessage(j, TRUE)

\* Telegram answers the ban notice with an error, which is raised inside
\* send_ban_notification
DispatcherBanSendError ==
    /\ dpc = "ban_notify"
    /\ notif' = undelivered(notif, djob)
    /\ dpc' = "ban_send_error"
    /\ UNCHANGED <<jobs, banned, queue, active_jobs, locked, waiters,
                   processing, djob, wpc, files, launched, decs>>
    /\ UNCHANGED <<rvars, hvars>>

\* the error is caught inside send_ban_notification, which returns:
\* cleanup_files, then `continue`
DispatcherBanSendErrorCaught ==
    /\ dpc = "ban_send_error"
    /\ jobs' = send_error_logged(jobs, djob)
    /\ files' = cleanup_files(files, jobs[djob].input_file_path)
    /\ djob' = 0
    /\ LoopTop(active_jobs, waiters)
    /\ UNCHANGED <<banned, queue, active_jobs, processing, wpc, notif,
                   launched, decs>>
    /\ UNCHANGED <<rvars, hvars>>

\* ------------------------------------------------------------ timed poll
\* the cancelled get() has taken the item with it
poll_cancelled_item_taken(q) == Tail(q)

\* Queue.get removes an item only in the step in which it returns it; a
\* get() that is cancelled after put() has woken it leaves the item where
\* it is (asyncio.Queue.get, the except branch around `await getter`)
poll_cancelled(q) == q

\* wait_for(processing_queue.get(), 1.0) at line 69 times out although the
\* queue has an item: add_to_queue has put it and woken the waiting get(),
\* and the timer fires before the woken get() runs.  wait_for cancels the
\* get() and raises TimeoutError, and line 71 goes back to the top of the
\* loop.  The log keeps each such timeout.
DispatcherTimeoutRace ==
    /\ dpc = "get"
    /\ queue # <<>>
    /\ Len(log) < MaxCalls
    /\ queue' = poll_cancelled(queue)
    /\ log' = Append(log, [call |-> "wait_for", result |-> "timeout"])
    /\ LoopTop(active_jobs, waiters)
    /\ UNCHANGED <<jobs, banned, active_jobs, processing, djob, wpc,
                   notif, files, launched, decs>>
    /\ UNCHANGED <<rvars, history, udata, hpc, hfile>>

\* ------------------------------------------------------------ database errors
\* The methods of Database pass the errors of sqlite3 on to their caller.
\* One raised while the dispatcher handles a pulled job, by get_user_by_id
\* (line 74) or before the commit of update_conversion_job (lines 77, 84),
\* leaves the while loop through `except Exception` at line 97, and the
\* finally clears the flag (line 100): process_queue returns.  The pulled
\* job is off the queue and its row was not written.
DispatcherError ==
    /\ dpc = "get"
    /\ queue # <<>>
    /\ queue' = queue_get_rest(queue)
    /\ processing' = FALSE
    /\ dpc' = "stopped"
    /\ UNCHANGED <<jobs, banned, active_jobs, locked, waiters, djob, wpc,
                   notif, files, launched, decs>>
    /\ UNCHANGED <<rvars, hvars>>

\* ------------------------------------------------------------ refused calls
\* the ban check comes after the insert and the put
rejected_call_inserted(J, user_id, input_path) ==
    add_conversion_job(J, user_id, input_path, get_queued_jobs_count(J) + 1)

\* add_to_queue lines 19-21: the call of a banned requester raises before
\* line 24, so the job table is as it was
rejected_call(J, user_id, input_path) == J

\* add_to_queue is called with the job_data of a banned requester; the
\* upload named in it is the caller's to store and to remove
add_to_queue_banned(u) ==
    /\ is_banned(banned, u)
    /\ Len(log) < MaxCalls
    /\ jobs' = rejected_call(jobs, u, upload_path(u, last_stamp(jobs, u) + 1))
    /\ log' = Append(log, [call |-> "add_to_queue", result |-> "raised"])
    /\ UNCHANGED <<banned, queue, active_jobs, locked, waiters, processing,
                   dpc, djob, wpc, notif, files, launched, decs>>
    /\ UNCHANGED <<rvars, history, udata, hpc, hfile>>

\* the flag is not looked at
already_running_ignored(p) == FALSE

\* process_queue line 52
already_running(p) == p

\* process_queue is called once more after post_init has started the loop.
\* With the flag set the call returns (lines 52-54); a call that got past
\* line 52 would run a loop of its own beside the first one.
process_queue_again ==
    /\ dpc \notin {"idle", "stopped"}
    /\ Len(log) < MaxCalls
    /\ log' = Append(log,
            [call |-> "process_queue",
             result |-> IF already_running(processing) THEN "returned"
                        ELSE "second loop"])
    /\ processing' = TRUE
    /\ UNCHANGED <<jobs, banned, queue, active_jobs, locked, waiters,
                   dpc, djob, wpc, notif, files, launched, decs>>
    /\ UNCHANGED <<rvars, history, udata, hpc, hfile>>

\* ------------------------------------------------------------ handlers
\* The handlers of bot.py for one requester.  The Application handles one
\* update at a time (concurrent_updates is left at its default), so one
\* handler is active at a time; while it is suspended in a call to Telegram
\* the dispatcher and the tasks run.

\* the buttons of the conversion keyboards that the model presses:
\* convert_img_png_jpg, convert_doc_pdf_txt and auto_convert_png_jpg
\* (source, target and the category named by the prefix, "" for auto_)
Selections ==
    {<<"png", "jpg", "image">>, <<"pdf", "txt", "document">>, <<"png", "jpg", "">>}

\* the extensions of the files the requester uploads: two supported ones,
\* one that no category lists, and one that reads like a category
UploadExtensions == {"png", "pdf", "xyz", "image"}

\* os.remove(input_path) if os.path.exists(input_path)
remove_upload(F, input_path) == F \ {input_path}

\* process_file_directly line 233: the expected format is
\* user_data['file_type'], which start_auto_conversion has set to the
\* category of the selection (line 342)
expected_format(U) == U.file_type

\* start_auto_conversion (lines 333-402), called by handle_callback for a
\* button convert_<category>_<source>_<target> or auto_convert_<source>_
\* <target>.  With a detected file of the source format at hand it calls
\* process_file_directly with five arguments for six parameters: the call
\* raises TypeError before the body runs, lines 375-377 report it, and
\* line 373 is skipped.  Otherwise it asks for the upload.
start_auto_conversion(source_format, target_format, category) ==
    /\ hpc = "idle"
    /\ LET file_type == IF category = "" THEN detect_file_type(source_format)
                        ELSE category
           U == [udata EXCEPT !.conversion_type = "auto",
                              !.input_format = source_format,
                              !.output_format = target_format,
                              !.file_type = file_type]
           file_info == udata.detected_file_info
       IN udata' =
            IF /\ file_info # NoFile
               /\ file_info.path \in files
               /\ file_info.extension = source_format
            THEN U
            ELSE [U EXCEPT !.expecting_followup_upload = TRUE]
    /\ UNCHANGED <<jobs, banned, queue, active_jobs, locked, waiters,
                   processing, dpc, djob, wpc, notif, files, launched, decs>>
    /\ UNCHANGED <<rvars, log, history, hpc, hfile>>

\* start_conversion (lines 404-450) for the button convert_png_jpg: the
\* selection is stored, file_type and expecting_followup_upload are left
\* as they are; pressing the button again changes nothing
start_conversion ==
    /\ hpc = "idle"
    /\ udata' = [udata EXCEPT !.conversion_type = "convert_png_jpg",
                              !.input_format = "png",
                              !.output_format = "jpg"]
    /\ udata' # udata
    /\ UNCHANGED <<jobs, banned, queue, active_jobs, locked, waiters,
                   processing, dpc, djob, wpc, notif, files, launched, decs>>
    /\ UNCHANGED <<rvars, log, history, hpc, hfile>>

\* handle_file lines 20-108: the requester is not banned and sends a file
\* with the given extension; the handler answers "Downloading" and waits
\* for the download.  hfile keeps the path of the upload, also after the
\* handler has returned; each upload falls into a second of its own.
handle_file(file_extension) ==
    /\ hpc = "idle"
    /\ ~is_banned(banned, 1)
    /\ LET stamp == IF hfile = NoFile THEN 1 ELSE hfile.path[2] + 1
       IN /\ stamp <= MaxJobs
          /\ hfile' = [path |-> upload_path(1, stamp), extension |-> file_extension]
    /\ hpc' = "download"
    /\ UNCHANGED <<jobs, banned, queue, active_jobs, locked, waiters,
                   processing, dpc, djob, wpc, notif, files, launched, decs>>
    /\ UNCHANGED <<rvars, log, history, udata>>

\* get_file or download_to_drive raises: the except of handle_file (line
\* 128) reports the error
DownloadFailed ==
    /\ hpc = "download"
    /\ hpc' = "hf_error_reply"
    /\ UNCHANGED <<jobs, banned, queue, active_jobs, locked, waiters,
                   processing, dpc, djob, wpc, notif, files, launched, decs>>
    /\ UNCHANGED <<rvars, log, history, udata, hfile>>

\* handle_file lines 108-126 with the synchronous part of what it calls.
\* The file is on the disk.  A follow-up upload goes to
\* process_file_directly (lines 199-259): ban check, selection check,
\* format check, then add_to_queue, each ending in a message to Telegram.
\* Any other upload goes to detect_and_suggest_conversions (lines 142-183).
Downloaded ==
    /\ hpc = "download"
    /\ files' = files \cup {hfile.path}
    /\ IF udata.expecting_followup_upload
       THEN /\ udata' = [udata EXCEPT !.expecting_followup_upload = FALSE]
            /\ IF is_banned(banned, 1)
               THEN hpc' = "pfd_reply_ban" /\ UNCHANGED <<jobs, queue, request>>
               ELSE IF udata.conversion_type = "" \/ udata.output_format = ""
               THEN hpc' = "pfd_reply_unset" /\ UNCHANGED <<jobs, queue, request>>
               ELSE IF /\ expected_format(udata) # ""
                       /\ hfile.extension # expected_format(udata)
               THEN hpc' = "pfd_reply_mismatch" /\ UNCHANGED <<jobs, queue, request>>
               ELSE /\ Len(jobs) < MaxJobs
                    /\ jobs' = add_conversion_job(jobs, 1, hfile.path,
                                    get_queued_jobs_count(jobs) + 1)
                    /\ queue' = queue_put(queue, Len(jobs) + 1)
                    /\ request' = Request(hfile.extension, udata.output_format)
                    /\ hpc' = "pfd_confirm"
       ELSE /\ IF detect_file_type(hfile.extension) = "unknown"
               THEN hpc' = "ds_reply_unknown" /\ UNCHANGED udata
               ELSE /\ hpc' = "ds_reply_suggest"
                    /\ udata' = [udata EXCEPT !.detected_file_info = hfile]
            /\ UNCHANGED <<jobs, queue, request>>
    /\ UNCHANGED <<banned, active_jobs, locked, waiters, processing, dpc,
                   djob, wpc, notif, launched, decs>>
    /\ UNCHANGED <<att, routed, offered, calls, log, history, hfile>>

\* lines 270-276: the selection is cleared once the job is confirmed
clear_selection(U) ==
    [U EXCEPT !.conversion_type = "", !.output_format = "", !.file_type = "",
              !.detected_file_info = NoFile,
              !.expecting_followup_upload = FALSE]

\* Telegram answers the message the handler is waiting for.
\* delivered: the call returns; otherwise it raises.
\*  - the three refusals of process_file_directly remove the upload and
\*    return (lines 202-211, 222-230, 235-245);
\*  - the confirmation of the job clears the selection (lines 268-276);
\*  - an error raised inside the try of process_file_directly is reported
\*    by its except branch, which then removes the upload (lines 280-294);
\*    an error raised by that report leaves process_file_directly and is
\*    reported by the except of handle_file, which then removes the
\*    upload (lines 128-137); an error raised by that report leaves the
\*    handler with the upload on the disk;
\*  - detect_and_suggest_conversions removes an upload of unknown type
\*    (lines 147-155) and after an error (lines 185-194).
Replied(delivered) ==
    /\ hpc \notin {"idle", "download"}
    /\ LET refusal == hpc \in {"pfd_reply_ban", "pfd_reply_unset", "pfd_reply_mismatch"}
           in_pfd == refusal \/ hpc = "pfd_confirm"
           in_ds == hpc \in {"ds_reply_unknown", "ds_reply_suggest"}
           report == hpc \in {"pfd_error_reply", "ds_error_reply", "hf_error_reply"}
       IN /\ hpc' = IF delivered THEN "idle"
                    ELSE IF in_pfd THEN "pfd_error_reply"
                    ELSE IF in_ds THEN "ds_error_reply"
                    ELSE IF hpc = "hf_error_reply" THEN "idle"
                    ELSE "hf_error_reply"
          /\ files' = IF delivered /\ (refusal \/ report \/ hpc = "ds_reply_unknown")
                      THEN remove_upload(files, hfile.path)
                      ELSE files
          /\ udata' = IF delivered /\ hpc = "pfd_confirm"
                      THEN clear_selection(udata) ELSE udata
    /\ UNCHANGED <<jobs, banned, queue, active_jobs, locked, waiters,
                   processing, dpc, djob, wpc, notif, launched, decs>>
    /\ UNCHANGED <<rvars, log, history, hfile>>

\* ------------------------------------------------------------ specification
Next ==
    \/ \E u \in Users : ban_user(u)
    \/ \E u \in Users : add_to_queue(u, FALSE)
    \/ process_queue
    \/ DispatcherWake
    \/ DispatcherLockGranted
    \/ DispatcherTimeout
    \/ DispatcherBanned
    \/ DispatcherBanNotified
    \/ DispatcherAdmit
    \/ DispatcherAdmitGranted
    \/ \E j \in JobIds : WorkerStart(j)
    \/ \E j \in JobIds : WorkerTimeout(j)
    \/ \E j \in JobIds, ok \in BOOLEAN : WorkerConverted(j, ok)
    \/ \E j \in JobIds : WorkerNotified(j)
    \/ \E j \in JobIds : WorkerLockGranted(j)

Spec == Init /\ [][Next]_vars

TypeOK ==
    /\ Len(jobs) <= MaxJobs
    /\ active_jobs \in 0..MAX_CONCURRENT_JOBS
    /\ dpc \in {"idle", "sleep", "lockwait", "get", "ban_notify", "lockwait_admit",
               "ban_send_error", "stopped"}

\* ------------------------------------------------------------ router
\* The functions of the router and the classifiers, applied to one request
\* drawn from all pairs of formats.
qvars == <<jobs, banned, queue, active_jobs, locked, waiters, processing,
           dpc, djob, wpc, notif, files, launched, decs>>

\* a call that follows another call is refused
routing_decision_once(earlier, output_format, input_extension) ==
    IF earlier = <<>> THEN convert_file(output_format, input_extension)
    ELSE Raises("busy")

\* What convert_file decides in a call made after the calls `earlier`: it
\* reads its arguments and self.supported_formats, which __init__ fills
\* and nothing writes afterwards, so the earlier calls do not enter.
routing_decision(earlier, output_format, input_extension) ==
    convert_file(output_format, input_extension)

\* what a call made after the calls `earlier` learns about the request r:
\* the decision of convert_file and the category each classifier gives to
\* the input format
classification(earlier, r) ==
    [request |-> r,
     routed |-> routing_decision(earlier, r.output_format, r.input_type),
     worker_category |-> _get_file_category(r.input_type),
     router_category |-> get_file_category(r.input_type),
     detected_type |-> detect_file_type(r.input_type),
     converter_category |-> supported_formats(r.input_type)]

RouterInit ==
    /\ QueueInit
    /\ request \in {Request(i, o) : i \in Formats, o \in Formats}
    /\ att = [j \in JobIds |-> <<>>]
    /\ routed = NotRouted
    /\ offered = NotAsked
    /\ calls = <<>>

\* UniversalConverter.convert_file is called for the request
RouterConvert ==
    /\ routed = NotRouted
    /\ routed' = convert_file(request.output_format, request.input_type)
    /\ UNCHANGED <<qvars, request, att, offered, calls>>
    /\ UNCHANGED hvars

\* ConverterRouter.get_supported_conversions is called for the input format
RouterSuggest ==
    /\ offered = NotAsked
    /\ offered' \in get_supported_conversions(request.input_type)
    /\ UNCHANGED <<qvars, request, att, routed, calls>>
    /\ UNCHANGED hvars

\* the input format of the request is classified by the worker, the
\* router, the upload handler and the converter
RouterClassify ==
    /\ calls = <<>>
    /\ calls' = <<classification(<<>>, request)>>
    /\ UNCHANGED <<qvars, request, att, routed, offered>>
    /\ UNCHANGED hvars

RouterNext ==
    \/ RouterConvert
    \/ RouterSuggest
    \/ RouterClassify

RouterSpec == RouterInit /\ [][RouterNext]_vars

\* ------------------------------------------------------------ repeated calls
\* The router called again and again, each call with a pair of formats of
\* its own: an image, a GIF, an audio, a video, two document and a
\* presentation format and one that is in no category.
RerouteFormats == {"png", "gif", "mp3", "mp4", "txt", "pdf", "pptx", "webp"}

RerouteInit ==
    /\ QueueInit
    /\ request = DefaultRequest
    /\ att = [j \in JobIds |-> <<>>]
    /\ routed = NotRouted
    /\ offered = NotAsked
    /\ calls = <<>>

\* one more call of convert_file and of the two classifiers
RouterCall(input_type, output_format) ==
    /\ Len(calls) < MaxCalls
    /\ request' = Request(input_type, output_format)
    /\ routed' = routing_decision(calls, output_format, input_type)
    /\ calls' = Append(calls,
            classification(calls, Request(input_type, output_format)))
    /\ UNCHANGED <<qvars, att, offered>>
    /\ UNCHANGED hvars

RerouteNext ==
    \E i \in RerouteFormats, o \in RerouteFormats : RouterCall(i, o)

RerouteSpec == RerouteInit /\ [][RerouteNext]_vars

\* ------------------------------------------------------------ conversion
\* The queue with the routines of the converter spelled out.  Every job of
\* a behaviour carries the same request, drawn from ConvRequests: a video
\* to GIF and a text to PDF (a routine with a fallback each), a video to
\* video (one routine), an input and an output format outside
\* SUPPORTED_FORMATS, and a pair of document formats without a routine.
\* The requester uploads the next file when the task of the previous job
\* has ended, so one job is in the system at a time: active_jobs stays
\* below MAX_CONCURRENT_JOBS, the dispatcher never sleeps and nobody ever
\* waits for job_lock.
ConvRequests ==
    {Request("mp4", "gif"), Request("txt", "pdf"), Request("mp4", "avi"),
     Request("webp", "jpg"), Request("png", "webp"), Request("odt", "txt")}

ConvInit ==
    /\ QueueInit
    /\ request \in ConvRequests
    /\ att = [j \in JobIds |-> <<>>]
    /\ routed = NotRouted
    /\ offered = NotAsked
    /\ calls = <<>>

ConvEnqueue ==
    /\ \A j \in DOMAIN jobs : wpc[j] = "done"
    /\ add_to_queue(1, FALSE)

\* the routine convert_file would try next for job j, "" if there is none
Pending(j) ==
    LET c == convert_file(request.output_format, request.input_type)
    IN IF c.error = "" /\ Len(att[j]) < Len(c.plan)
       THEN c.plan[Len(att[j]) + 1] ELSE ""

\* convert_file raises before any routine runs (lines 44-47, 676, 1207)
ConvRejected(j) ==
    /\ wpc[j] = "converting"
    /\ convert_file(request.output_format, request.input_type).error # ""
    /\ Fail(j, convert_file(request.output_format, request.input_type).error)
    /\ UNCHANGED <<banned, queue, active_jobs, locked, waiters, processing,
                   dpc, djob, files, launched, decs>>
    /\ UNCHANGED <<rvars, hvars>>

\* The next routine of the plan ends with outcome r.  A path that was
\* returned goes up to perform_professional_conversion and process_job,
\* which check the file and complete the job (lines 218-233, 135-165); an
\* exception goes to the fallback when there is one and to the except
\* branch of process_job otherwise.
ConvAttempt(j, r) ==
    /\ wpc[j] = "converting"
    /\ Pending(j) # ""
    /\ r \in Outcomes(Pending(j))
    /\ r = "ok" => jobs[j].input_file_path \in files
    /\ att' = [att EXCEPT ![j] = Append(@, r)]
    /\ LET plan == convert_file(request.output_format, request.input_type).plan
       IN IF r = "ok"
          THEN /\ jobs' = MarkCompleted(jobs, j)
               /\ notif' = send_status_update(notif, j, "done")
               /\ wpc' = [wpc EXCEPT ![j] = "notify_done"]
               /\ files' = write_output(files, jobs[j].input_file_path)
          ELSE IF falls_back(r) /\ Len(att[j]) + 1 < Len(plan)
          THEN /\ jobs' = fallback_warning(jobs, j)
               /\ UNCHANGED <<notif, wpc, files>>
          ELSE Fail(j, "Conversion failed") /\ UNCHANGED files
    /\ UNCHANGED <<banned, queue, active_jobs, locked, waiters, processing,
                   dpc, djob, launched, decs, request, routed, offered, calls>>
    /\ UNCHANGED hvars

\* The category timeout of process_job (lines 123-133) expires while the
\* task is suspended inside wait_for: in the 50% update, before any routine
\* has run, or in a routine that awaits a command.  Routines that run
\* inside the interpreter never suspend.
ConvTimeout(j) ==
    /\ att[j] = <<>> \/ Pending(j) \in CommandRoutines
    /\ WorkerTimeout(j)

ConvNext ==
    \/ ban_user(1)
    \/ ConvEnqueue
    \/ process_queue
    \/ DispatcherTimeout
    \/ DispatcherBanned
    \/ DispatcherBanNotified
    \/ DispatcherAdmit
    \/ \E j \in JobIds : WorkerStart(j)
    \/ \E j \in JobIds : ConvTimeout(j)
    \/ \E j \in JobIds : ConvRejected(j)
    \/ \E j \in JobIds, r \in {"ok", "error", "cmd_timeout", "empty"} : ConvAttempt(j, r)
    \/ \E j \in JobIds : WorkerNotified(j)

ConvSpec == ConvInit /\ [][ConvNext]_vars

\* ------------------------------------------------------------ properties
Terminal == {"completed", "failed"}
InQueue(j) == \E i \in DOMAIN queue : queue[i] = j
Running(j) == wpc[j] \notin {"none", "done"}
StatusIs(st) == {j \in DOMAIN jobs : jobs[j].status = st}
TerminalNotices(j) ==
    {i \in DOMAIN notif[j] : notif[j][i] \in {"done", "fail", "ban"}}

\* C1: the number of jobs whose status is processing and the number of
\* process_job tasks that are running never exceed MAX_CONCURRENT_JOBS.
ConcurrencyBound ==
    /\ Cardinality(StatusIs("processing")) <= MAX_CONCURRENT_JOBS
    /\ Cardinality({j \in JobIds : Running(j)}) <= MAX_CONCURRENT_JOBS

\* both counts are at the limit while a further job waits on the queue
ConcurrencyBoundWitness ==
    /\ Cardinality(StatusIs("processing")) = MAX_CONCURRENT_JOBS
    /\ Cardinality({j \in JobIds : Running(j)}) = MAX_CONCURRENT_JOBS
    /\ queue # <<>>
    /\ dpc = "sleep"

\* C2: job ids are handed out in the order of the add_to_queue calls; a job
\* is marked processing (or failed by the ban check) or gets a task only
\* after every job enqueued before it has been pulled from the queue.
FifoAdmission ==
    \A a, b \in DOMAIN jobs :
        (a < b /\ (jobs[b].status # "queued" \/ launched[b] > 0)) => ~InQueue(a)

\* three jobs were enqueued and the last of them has been admitted
FifoAdmissionWitness ==
    /\ Len(jobs) = 3
    /\ launched[3] = 1
    /\ launched[1] = 1
    /\ jobs[2].status # "queued"

\* C3 as stated: every status change of a job record is queued -> processing,
\* processing -> completed or processing -> failed.
StatusStep(old, new) ==
    \/ old = "queued" /\ new = "processing"
    \/ old = "processing" /\ new = "completed"
    \/ old = "processing" /\ new = "failed"

TerminalMonotonicity ==
    [][\A j \in DOMAIN jobs :
        /\ jobs[j].status \in Terminal => jobs'[j].status = jobs[j].status
        /\ jobs[j].status = "processing" => jobs'[j].progress >= jobs[j].progress]_vars

\* a completed and a failed job whose tasks have run to their end
TerminalMonotonicityWitness ==
    /\ \E j \in DOMAIN jobs : jobs[j].status = "completed" /\ wpc[j] = "done"
    /\ \E j \in DOMAIN jobs :
        jobs[j].status = "failed" /\ wpc[j] = "done" /\ jobs[j].progress = 10

\* C5: a job is on the queue at most once, a job on the queue has not been
\* pulled before, and no job ever gets a second task.
SingleOwner ==
    /\ \A i, k \in DOMAIN queue : queue[i] = queue[k] => i = k
    /\ \A j \in DOMAIN jobs :
        /\ launched[j] <= 1
        /\ InQueue(j) => jobs[j].status = "queued" /\ launched[j] = 0 /\ djob # j
        /\ launched[j] = 0 => wpc[j] = "none"

\* a task has finished its job while the next job already has its own task
SingleOwnerWitness ==
    \E j, k \in DOMAIN jobs :
        /\ j < k
        /\ wpc[j] = "done" /\ launched[j] = 1
        /\ Running(k) /\ launched[k] = 1

\* C6: when the task of a job ends, the input file of the job is gone and
\* the task has decremented active_jobs once, by one; a task that has ended
\* never decrements again.
CleanupGuarantee ==
    [][\A j \in DOMAIN jobs :
        /\ wpc'[j] = "done" => decs'[j] = 1
        /\ (wpc[j] # "done" /\ wpc'[j] = "done")
            => /\ jobs[j].input_file_path \notin files'
               /\ decs[j] = 0
               /\ active_jobs' = active_jobs - 1]_vars

\* the tasks of a completed job, of a job failed by the worker's ban check
\* and of a job whose conversion failed have all ended
CleanupGuaranteeWitness ==
    /\ \E j \in DOMAIN jobs : jobs[j].status = "completed" /\ wpc[j] = "done"
    /\ \E j \in DOMAIN jobs :
        /\ wpc[j] = "done"
        /\ jobs[j].error_message = "User account banned during processing"
    /\ \E j \in DOMAIN jobs :
        wpc[j] = "done" /\ jobs[j].error_message = "Conversion failed"

\* C7: a job with a terminal status has exactly one terminal message, of
\* the kind of its status, and it is the last message of the job; a job
\* without a terminal status has none.
OneTerminalNotification ==
    \A j \in DOMAIN jobs :
        LET n == notif[j] IN
        /\ jobs[j].status \notin Terminal => TerminalNotices(j) = {}
        /\ jobs[j].status \in Terminal => TerminalNotices(j) = {Len(n)}
        /\ jobs[j].status = "completed" => n[Len(n)] = "done"
        /\ jobs[j].status = "failed" => n[Len(n)] \in {"fail", "ban"}

\* a completed job, a job failed by its task and a job failed by the ban
\* check, all past their terminal message
OneTerminalNotificationWitness ==
    /\ \E j \in DOMAIN jobs : notif[j] = <<"p20", "p50", "done">> /\ wpc[j] = "done"
    /\ \E j \in DOMAIN jobs : notif[j] = <<"p20", "p50", "fail">> /\ wpc[j] = "done"
    /\ \E j \in DOMAIN jobs : notif[j] = <<"ban">> /\ dpc # "ban_notify"

\* C9 as stated: while the dispatcher waits because all slots are in use, no
\* task that has finished its job has to wait for the dispatcher before it
\* can decrement active_jobs.
AdmissionWaitBlocksNoWorker ==
    ~(dpc = "sleep" /\ \E j \in JobIds : wpc[j] = "wait_lock")

Fairness ==
    /\ WF_vars(process_queue)
    /\ WF_vars(DispatcherWake)
    /\ WF_vars(DispatcherLockGranted)
    /\ WF_vars(DispatcherBanned)
    /\ WF_vars(DispatcherBanNotified)
    /\ WF_vars(DispatcherAdmit)
    /\ WF_vars(DispatcherAdmitGranted)
    /\ \A j \in JobIds :
        /\ WF_vars(WorkerStart(j))
        /\ WF_vars(WorkerTimeout(j) \/ \E ok \in BOOLEAN : WorkerConverted(j, ok))
        /\ WF_vars(WorkerNotified(j))
        /\ WF_vars(WorkerLockGranted(j))

\* Requesters differ only in their ban flag and the dispatcher and the tasks
\* read nothing else of them, so progress is checked with the jobs of one
\* requester, who may be banned at any moment.
LiveNext ==
    \/ ban_user(1)
    \/ add_to_queue(1, FALSE)
    \/ process_queue
    \/ DispatcherWake
    \/ DispatcherLockGranted
    \/ DispatcherTimeout
    \/ DispatcherBanned
    \/ DispatcherBanNotified
    \/ DispatcherAdmit
    \/ DispatcherAdmitGranted
    \/ \E j \in JobIds : WorkerStart(j)
    \/ \E j \in JobIds : WorkerTimeout(j)
    \/ \E j \in JobIds, ok \in BOOLEAN : WorkerConverted(j, ok)
    \/ \E j \in JobIds : WorkerNotified(j)
    \/ \E j \in JobIds : WorkerLockGranted(j)

LiveSpec == Init /\ [][LiveNext]_vars /\ Fairness

queue_position_of(J, job_id) ==
    LET rows == get_user_queued_jobs(J, J[job_id].user_id)
        hit == {k \in DOMAIN rows : rows[k].id = job_id}
    IN IF hit = {} THEN 0 ELSE rows[CHOOSE k \in hit : TRUE].queue_position

\* C11 as stated: of two jobs of one requester enqueued one right after the
\* other, the second reads position 2 while the first is queued or
\* processing and position 1 once the first has completed.
QueuePositionLive ==
    (/\ Len(jobs) >= 2
     /\ jobs[1].user_id = jobs[2].user_id
     /\ jobs[2].status \notin Terminal)
    => /\ jobs[1].status \notin Terminal => queue_position_of(jobs, 2) = 2
       /\ jobs[1].status = "completed" => queue_position_of(jobs, 2) = 1

\* ------------------------------------------------------------ enqueue
\* C12: whenever a requester who is not banned has a file to enqueue,
\* add_to_queue can run to its end in the current state, whatever the
\* dispatcher and the tasks are doing: it waits neither for job_lock nor
\* for a slot nor for room on the queue.
EnqueueNeverBlocks ==
    \A u \in Users :
        (Len(jobs) < MaxJobs /\ ~banned[u] /\ u <= known_users(jobs) + 1)
            => ENABLED add_to_queue(u, FALSE)

\* all slots are in use, the dispatcher sleeps with job_lock held, a task
\* waits for the lock, and add_to_queue can still run
EnqueueNeverBlocksWitness ==
    /\ dpc = "sleep"
    /\ locked
    /\ AtCapacity(active_jobs)
    /\ \E j \in JobIds : wpc[j] = "wait_lock"
    /\ ENABLED add_to_queue(1, FALSE)

\* ------------------------------------------------------------ bans
\* perform_professional_conversion has been entered for job j: its first
\* act is the 50% update
Invoked(j) == \E i \in DOMAIN notif[j] : notif[j][i] = "p50"

BanErrors == {"User account banned", "User account banned during processing"}

\* the task of job j is past its ban check, the conversion was not entered
\* and the requester is banned: then the job is failed
FailedPastCheck(j) ==
    (banned[jobs[j].user_id] /\ ~Invoked(j) /\ wpc[j] \notin {"none", "start"})
        => jobs[j].status = "failed"

DisabledMidProcessingStrict ==
    [][\A j \in DOMAIN jobs :
        (jobs[j].status = "processing" /\ banned[jobs[j].user_id])
            => jobs'[j].status # "completed"]_vars

\* C14 amended: the task looks at the ban once, when it starts.  If the
\* requester is banned then, the job goes from processing to failed with
\* the error 'User account banned during processing'; if not, the
\* conversion is entered, and no later step fails the job for a ban.
DisabledAtTaskStart ==
    [][\A j \in DOMAIN jobs :
        /\ (wpc[j] = "start" /\ wpc'[j] # "start")
            => IF banned[jobs[j].user_id]
               THEN /\ jobs[j].status = "processing"
                    /\ jobs'[j].status = "failed"
                    /\ jobs'[j].error_message = "User account banned during processing"
               ELSE /\ jobs'[j].status = "processing"
                    /\ wpc'[j] = "converting"
        /\ (jobs'[j].error_message \in BanErrors
            /\ jobs[j].error_message \notin BanErrors)
            => wpc[j] \in {"none", "start"}]_vars

\* a job was failed by the check of its task while another job of the same
\* banned requester, already past the check, is still being converted
DisabledAtTaskStartWitness ==
    \E j, k \in DOMAIN jobs :
        /\ jobs[j].user_id = jobs[k].user_id
        /\ banned[jobs[j].user_id]
        /\ jobs[j].error_message = "User account banned during processing"
        /\ wpc[k] = "converting"
        /\ jobs[k].status = "processing"

\* C15 as stated: a job that was failed because its requester is banned, by
\* the dispatcher or by its task, has got the ban notice and no generic
\* failure message.
DistinctDisabledNotice ==
    \A j \in DOMAIN jobs :
        (jobs[j].error_message \in BanErrors /\ wpc[j] \in {"none", "done"}
         /\ dpc # "ban_notify")
            => /\ \E i \in DOMAIN notif[j] : notif[j][i] = "ban"
               /\ \A i \in DOMAIN notif[j] : notif[j][i] # "fail"

\* ------------------------------------------------------------ routing
\* C16 as stated: a job whose input or output format is in no category of
\* SUPPORTED_FORMATS never has the status processing and never gets a task.
UnsupportedNeverProcessing ==
    \A j \in DOMAIN jobs :
        (\/ supported_formats(request.input_type) = NoCategory
         \/ supported_formats(request.output_format) = NoCategory)
            => jobs[j].status # "processing" /\ launched[j] = 0

\* the targets CONVERSION_MAP declares for ext
declared_targets(ext) ==
    IF supported_formats(ext) = NoCategory THEN {}
    ELSE CONVERSION_MAP[supported_formats(ext)][ext]

\* C17 as stated: for two formats of SUPPORTED_FORMATS without an entry in
\* CONVERSION_MAP, convert_file raises before it runs any routine.
UnsupportedConversionAtRouting ==
    (/\ routed # NotRouted
     /\ supported_formats(request.input_type) # NoCategory
     /\ supported_formats(request.output_format) # NoCategory
     /\ request.output_format \notin declared_targets(request.input_type))
    => routed.error # "" /\ routed.plan = <<>>

\* C18 as stated: convert_file runs a routine for every target that
\* get_supported_conversions lists for the input format.
AdvertisedTargetsConvertible ==
    (/\ routed # NotRouted
     /\ offered # NotAsked
     /\ \E i \in DOMAIN offered : offered[i] = request.output_format)
    => routed.error = "" /\ routed.plan # <<>>

\* ------------------------------------------------------------ fallback
\* C19: when the first routine of a conversion has failed and its fallback
\* has returned a usable file, the job is completed with the output path
\* stored, its error message is empty and the requester got the completion
\* message and no failure message.
FallbackCorrectness ==
    \A j \in DOMAIN jobs :
        (Len(att[j]) = 2 /\ att[j][1] # "ok" /\ att[j][2] = "ok")
            => /\ jobs[j].status = "completed"
               /\ jobs[j].progress = 100
               /\ jobs[j].output_file_path = output_path(jobs[j].input_file_path)
               /\ jobs[j].error_message = ""
               /\ notif[j][Len(notif[j])] = "done"
               /\ \A i \in DOMAIN notif[j] : notif[j][i] # "fail"

\* a video to GIF job whose palette command failed and whose simple command
\* succeeded has run to its end
FallbackCorrectnessWitness ==
    /\ request = Request("mp4", "gif")
    /\ \E j \in DOMAIN jobs :
        /\ att[j] = <<"error", "ok">>
        /\ jobs[j].status = "completed"
        /\ wpc[j] = "done"

AttemptAbortedOnly(j) ==
    LET plan == convert_file(request.output_format, request.input_type).plan
    IN (/\ Len(plan) > 1
        /\ att[j] # <<>>
        /\ att[j][1] = "cmd_timeout"
        /\ jobs[j].status = "failed")
        => \/ Len(att[j]) = Len(plan)
           \/ jobs[j].error_message = "Professional conversion timeout"

PastConversion(j) == wpc[j] \in {"notify_done", "notify_fail", "wait_lock", "done"}

\* C21: when the conversion of a job was entered and has ended without any
\* routine having returned a usable file (each routine that was tried
\* raised, timed out or left no or an empty file, or the category timeout
\* cut the conversion), the job is failed, its error message is set and no
\* output path is stored.
ExhaustionCorrectness ==
    \A j \in DOMAIN jobs :
        (/\ Invoked(j)
         /\ PastConversion(j)
         /\ \A i \in DOMAIN att[j] : att[j][i] # "ok")
            => /\ jobs[j].status = "failed"
               /\ jobs[j].error_message # ""
               /\ jobs[j].output_file_path = NoPath

\* a video to GIF job whose two routines have both failed, and one whose
\* first routine returned an empty file, have run to their end
ExhaustionCorrectnessWitness ==
    /\ request = Request("mp4", "gif")
    /\ \E j \in DOMAIN jobs :
        /\ att[j] = <<"error", "cmd_timeout">>
        /\ wpc[j] = "done"
        /\ jobs[j].status = "failed"
    /\ \E j \in DOMAIN jobs :
        /\ att[j] = <<"empty">>
        /\ wpc[j] = "done"
        /\ jobs[j].status = "failed"

\* C22: a job has an output path stored exactly when it is completed; a
\* completed job was completed by a routine that returned a usable file,
\* which is on the disk when the completion is recorded; and only a failed
\* job has an error message.
OutputInvariant ==
    \A j \in DOMAIN jobs :
        /\ jobs[j].output_file_path # NoPath <=> jobs[j].status = "completed"
        /\ jobs[j].status = "completed"
            => /\ att[j] # <<>>
               /\ att[j][Len(att[j])] = "ok"
               /\ jobs[j].output_file_path = output_path(jobs[j].input_file_path)
        /\ wpc[j] = "notify_done" => jobs[j].output_file_path \in files
        /\ jobs[j].error_message # "" => jobs[j].status = "failed"

\* a completed job, a job whose conversion failed and a job failed by the
\* dispatcher's ban check
OutputInvariantWitness ==
    /\ \E j \in DOMAIN jobs :
        jobs[j].status = "completed" /\ wpc[j] = "done"
    /\ \E j \in DOMAIN jobs :
        /\ jobs[j].error_message = "Conversion failed"
        /\ jobs[j].output_file_path = NoPath
    /\ \E j \in DOMAIN jobs :
        /\ jobs[j].error_message = "User account banned"
        /\ jobs[j].output_file_path = NoPath

\* C23: the stored progress of a job is 100 exactly when the job is
\* completed.
ProgressInvariant ==
    \A j \in DOMAIN jobs :
        jobs[j].progress = 100 <=> jobs[j].status = "completed"

\* a completed job at 100, a failed job that keeps the 10 of its admission
\* and a job that is being converted, at 10 although 50 was sent
ProgressInvariantWitness ==
    /\ \E j \in DOMAIN jobs :
        jobs[j].status = "completed" /\ jobs[j].progress = 100
    /\ \E j \in DOMAIN jobs :
        jobs[j].status = "failed" /\ jobs[j].progress = 10
    /\ \E j \in DOMAIN jobs :
        /\ jobs[j].status = "processing"
        /\ jobs[j].progress = 10
        /\ Invoked(j)

\* ------------------------------------------------------------ files
\* The queue with one requester whose uploads may fall into the same
\* second: handle_file names the upload after the user and the time to the
\* second, so two such uploads of one extension get the same path.
PathNext ==
    \/ \E same_second \in BOOLEAN : add_to_queue(1, same_second)
    \/ process_queue
    \/ DispatcherWake
    \/ DispatcherLockGranted
    \/ DispatcherTimeout
    \/ DispatcherAdmit
    \/ DispatcherAdmitGranted
    \/ \E j \in JobIds : WorkerStart(j)
    \/ \E j \in JobIds : WorkerTimeout(j)
    \/ \E j \in JobIds, ok \in BOOLEAN : WorkerConverted(j, ok)
    \/ \E j \in JobIds : WorkerNotified(j)
    \/ \E j \in JobIds : WorkerLockGranted(j)

PathSpec == Init /\ [][PathNext]_vars

\* C24 as stated: two jobs that are queued or processing at the same time
\* have different input paths, and the input file of a job that is queued
\* or processing is on the disk: no cleanup of another job has removed it.
ExclusiveInputPath ==
    /\ \A a, b \in DOMAIN jobs :
        (a # b /\ jobs[a].status \notin Terminal /\ jobs[b].status \notin Terminal)
            => jobs[a].input_file_path # jobs[b].input_file_path
    /\ \A j \in DOMAIN jobs :
        jobs[j].status \notin Terminal => jobs[j].input_file_path \in files

\* the job is over: its task has ended, or the dispatcher's ban check has
\* failed it and has finished its own cleanup
Finished(j) ==
    /\ jobs[j].status \in Terminal
    /\ \/ wpc[j] = "done"
       \/ launched[j] = 0 /\ ~(dpc = "ban_notify" /\ djob = j)

\* C25 as stated: once a job is over, neither its input file nor its output
\* file is on the disk.
FinishedJobFilesDestroyed ==
    \A j \in DOMAIN jobs :
        Finished(j)
            => /\ jobs[j].input_file_path \notin files
               /\ output_path(jobs[j].input_file_path) \notin files

\* ------------------------------------------------------------ delivery
\* The queue of one requester, who may be banned at any moment, with
\* deliveries that fail: the terminal message of a task and the ban notice
\* of the dispatcher can be answered with an error.
NotifyNext ==
    \/ LiveNext
    \/ \E j \in JobIds : WorkerSendError(j)
    \/ \E j \in JobIds : WorkerSendErrorCaught(j)
    \/ DispatcherBanSendError
    \/ DispatcherBanSendErrorCaught

NotifySpec == Init /\ [][NotifyNext]_vars

\* a delivery for job j has just raised
SendErrorPending(j) == wpc[j] = "send_error" \/ (dpc = "ban_send_error" /\ djob = j)

\* C26: an error raised while a message for a job is delivered leaves the
\* record of the job as it is, and a completed job whose message was lost
\* stays completed; the task whose delivery failed goes on to its finally
\* branch only, which nothing keeps it from entering and where it
\* decrements active_jobs once and removes the input file; after a failed
\* ban notice the dispatcher removes the input file and goes on with its
\* loop.
NotificationNonFatal ==
    [][\A j \in DOMAIN jobs :
        /\ SendErrorPending(j) => jobs'[j] = jobs[j]
        /\ (\E i \in DOMAIN notif[j] : notif[j][i] = "lost")
            => jobs'[j].status = jobs[j].status
        /\ wpc[j] = "send_error"
            => /\ ENABLED WorkerSendErrorCaught(j)
               /\ wpc'[j] \in {"send_error", "wait_lock", "done"}
               /\ wpc'[j] = "done"
                    => /\ decs'[j] = decs[j] + 1
                       /\ active_jobs' = active_jobs - 1
                       /\ jobs[j].input_file_path \notin files'
        /\ (dpc = "ban_send_error" /\ djob = j)
            => /\ ENABLED DispatcherBanSendErrorCaught
               /\ dpc' # dpc
                    => /\ jobs[j].input_file_path \notin files'
                       /\ dpc' \in {"get", "sleep", "lockwait"}]_vars

\* the completion message of one job and the ban notice of another were
\* lost; the first job is still completed, its task has ended with one
\* decrement and its input file is gone
NotificationNonFatalWitness ==
    /\ \E j \in DOMAIN jobs :
        /\ notif[j] = <<"p20", "p50", "lost">>
        /\ jobs[j].status = "completed"
        /\ wpc[j] = "done"
        /\ decs[j] = 1
        /\ jobs[j].input_file_path \notin files
    /\ \E j \in DOMAIN jobs :
        /\ notif[j] = <<"lost">>
        /\ jobs[j].error_message = "User account banned"
        /\ dpc # "ban_send_error"

SupportedTargetsListing ==
    offered # NotAsked =>
        LET src == request.input_type
            order == <<"pdf", "jpg", "png", "mp3", "mp4", "docx", "txt", "webp">>
            ranks(f) == {r \in DOMAIN order : order[r] = f}
            rank(f) == CHOOSE r \in ranks(f) : TRUE
        IN /\ (\A c \in DOMAIN SUPPORTED_FORMATS : src \notin SUPPORTED_FORMATS[c])
                => offered = <<>>
           /\ (\E c \in DOMAIN SUPPORTED_FORMATS : src \in SUPPORTED_FORMATS[c])
                => declared_targets(src) \subseteq {offered[i] : i \in DOMAIN offered}
           /\ \A i, k \in DOMAIN offered : i # k => offered[i] # offered[k]
           /\ \A i \in DOMAIN offered : offered[i] \notin unsupported_formats
           /\ Len(offered) <= 15
           /\ \A i, k \in DOMAIN offered :
                (i < k /\ ranks(offered[k]) # {})
                    => /\ ranks(offered[i]) # {}
                       /\ rank(offered[i]) < rank(offered[k])

\* the list for png: the four common formats it has come first, four
\* others follow
SupportedTargetsListingWitness ==
    /\ request.input_type = "png"
    /\ offered # NotAsked
    /\ Len(offered) = 8
    /\ SubSeq(offered, 1, 4) = <<"pdf", "jpg", "png", "webp">>

\* ------------------------------------------------------------ admission
\* C29: the conversion of a job is entered only when the record of the job
\* has the status processing and the progress 10, and never for a job that
\* is queued; the task of a job is created only after the record was
\* updated; and a job leaves the queue only in a step of the dispatcher
\* that found active_jobs below MAX_CONCURRENT_JOBS.
ProcessingRecordedFirst ==
    [][\A j \in DOMAIN jobs :
        /\ (Invoked(j)' /\ ~Invoked(j))
            => jobs[j].status = "processing" /\ jobs[j].progress = 10
        /\ Invoked(j)' => jobs'[j].status # "queued"
        /\ launched'[j] > launched[j]
            => jobs'[j].status = "processing" /\ jobs'[j].progress = 10
        /\ (InQueue(j) /\ ~InQueue(j)')
            => active_jobs < MAX_CONCURRENT_JOBS /\ dpc = "get"]_vars

\* the conversion of two jobs was entered, both are processing at 10, and
\* a third job stays on the queue while the dispatcher finds no free slot
ProcessingRecordedFirstWitness ==
    /\ Len(jobs) = 3
    /\ InQueue(3)
    /\ jobs[3].status = "queued"
    /\ active_jobs = MAX_CONCURRENT_JOBS
    /\ \A j \in {1, 2} :
        Invoked(j) /\ jobs[j].status = "processing" /\ jobs[j].progress = 10

\* ------------------------------------------------------------ declared pairs
\* C30: for every pair of formats that CONVERSION_MAP declares, convert_file
\* raises nothing before it runs a routine: it reaches at least one.
DeclaredConversionsRoutable ==
    (/\ routed # NotRouted
     /\ \E c \in DOMAIN CONVERSION_MAP :
            /\ request.input_type \in DOMAIN CONVERSION_MAP[c]
            /\ request.output_format \in CONVERSION_MAP[c][request.input_type])
    => /\ routed.error = ""
       /\ routed.plan # <<>>
       /\ routed.error \notin {"Unsupported input format",
                               "Unsupported output format", "not implemented"}

\* the declared pair ppt to pdf was routed to the presentation routine
DeclaredConversionsRoutableWitness ==
    /\ request = Request("ppt", "pdf")
    /\ routed = Runs(<<"_ppt_to_pdf_advanced">>)

\* ------------------------------------------------------------ refused calls
\* The queue of one requester, who may be banned at any moment, with calls
\* that are refused: add_to_queue for the banned requester, and
\* process_queue while the loop started by post_init is running.
RefusalNext ==
    \/ LiveNext
    \/ add_to_queue_banned(1)
    \/ process_queue_again

RefusalSpec == Init /\ [][RefusalNext]_vars

\* the last call that was logged in this step, if any
JustLogged(call) ==
    /\ Len(log') = Len(log) + 1
    /\ log'[Len(log')].call = call

\* C31: a call of add_to_queue for a requester who is banned at that moment
\* raises and leaves the job table, the queue and active_jobs as they were;
\* and no job is ever accepted from a requester who is banned at that moment.
EnqueueByDisabledChangesNothing ==
    [][/\ JustLogged("add_to_queue") =>
            /\ log'[Len(log')].result = "raised"
            /\ jobs' = jobs
            /\ queue' = queue
            /\ active_jobs' = active_jobs
       /\ Len(jobs') > Len(jobs) => ~banned[jobs'[Len(jobs')].user_id]
      ]_vars

\* add_to_queue has raised for the banned requester while a job of theirs
\* was processing and another was waiting in the queue
EnqueueByDisabledChangesNothingWitness ==
    /\ \E i \in DOMAIN log : log[i].call = "add_to_queue"
    /\ banned[1]
    /\ active_jobs = 1
    /\ Len(queue) = 1
    /\ Len(jobs) = 2

\* C35: while the dispatch loop runs the flag `processing` is set, so a
\* further call of process_queue returns at line 54: it starts no second
\* loop and leaves the queue, active_jobs, the job table and the position
\* of the running loop as they were.
SingleDispatchLoop ==
    [][/\ dpc' # "idle" => processing'
       /\ JustLogged("process_queue") =>
            /\ log'[Len(log')].result = "returned"
            /\ UNCHANGED <<jobs, queue, active_jobs, dpc, djob, wpc, launched>>
      ]_vars

\* process_queue was called again and returned while the loop was waiting
\* for a free slot with a job in the queue
SingleDispatchLoopWitness ==
    /\ \E i \in DOMAIN log : log[i].call = "process_queue" /\ log[i].result = "returned"
    /\ dpc = "sleep"
    /\ active_jobs = MAX_CONCURRENT_JOBS
    /\ queue # <<>>

\* ------------------------------------------------------------ dispatcher errors
\* The queue of one requester with a database that can fail while the
\* dispatcher handles a pulled job; the event loop is as fair as in LiveSpec.
FaultNext ==
    \/ LiveNext
    \/ DispatcherError

FaultSpec == Init /\ [][FaultNext]_vars /\ Fairness

\* C32 as stated: whatever is raised while the dispatcher handles a job,
\* every job that is Queued, in the FIFO or pulled from it, leaves that
\* status later on.
DispatchLoopSurvives ==
    \A j \in JobIds :
        (j \in DOMAIN jobs /\ jobs[j].status = "queued")
            ~> (j \in DOMAIN jobs /\ jobs[j].status # "queued")

\* ------------------------------------------------------------ timed poll
\* The queue of one requester with a timed poll that may time out just
\* when add_to_queue has put a job.
PollNext ==
    \/ LiveNext
    \/ DispatcherTimeoutRace

PollSpec == Init /\ [][PollNext]_vars

\* a job is Queued exactly as long as it is in the FIFO
QueuedJobsAreInFifo ==
    \A j \in DOMAIN jobs : jobs[j].status = "queued" <=> InQueue(j)

Outstanding == {j \in JobIds : launched[j] > decs[j]}

\* C34: active_jobs is the number of process_job tasks that were created
\* and have not yet run the decrement of their finally branch.  Each task
\* is counted once and decrements once; a task that has its decrement
\* still to run finds a counter of at least 1, so max(0, ...) changes
\* nothing; and the counter is 0 when no task is running.
CounterInvariant ==
    /\ active_jobs = Cardinality(Outstanding)
    /\ active_jobs >= 0
    /\ \A j \in JobIds : launched[j] - decs[j] \in {0, 1}
    /\ \A j \in JobIds : j \in Outstanding <=> Running(j)
    /\ \A j \in JobIds : Running(j) => active_jobs - 1 = Max0(active_jobs - 1)
    /\ (\A j \in JobIds : ~Running(j)) => active_jobs = 0

\* two tasks have run their decrement, a third is running: the counter is 1
CounterInvariantWitness ==
    /\ active_jobs = 1
    /\ Cardinality({j \in JobIds : decs[j] = 1}) = 2
    /\ Cardinality({j \in JobIds : Running(j)}) = 1

\* ------------------------------------------------------------ ban at dispatch
\* C36: the dispatcher that pulls the job of a banned requester takes it
\* off the head of the FIFO, marks it failed with an error message and
\* sends the ban notice, all without creating a task or touching
\* active_jobs; when the notice is out it removes the input file of the job
\* and is back at the top of its loop, with the rest of the FIFO as it was.
\* No task is ever created for that job.
BanAtDispatchTakesNoSlot ==
    [][/\ (dpc # "ban_notify" /\ dpc' = "ban_notify") =>
            /\ queue # <<>> /\ djob' = Head(queue) /\ queue' = Tail(queue)
            /\ banned[jobs[djob'].user_id]
            /\ jobs'[djob'].status = "failed"
            /\ jobs'[djob'].error_message = "User account banned"
            /\ notif'[djob'] = Append(notif[djob'], "ban")
            /\ UNCHANGED <<active_jobs, launched, wpc, decs, files>>
       /\ (dpc = "ban_notify" /\ dpc' # "ban_notify") =>
            /\ jobs[djob].input_file_path \notin files'
            /\ dpc' \in {"get", "sleep", "lockwait"}
            /\ UNCHANGED <<active_jobs, launched, wpc, decs, queue, jobs>>
       /\ \A j \in DOMAIN jobs' :
            jobs'[j].error_message = "User account banned" =>
                launched'[j] = 0 /\ wpc'[j] = "none"
      ]_vars

\* the first job in the FIFO was cancelled for the ban while a task was
\* running, and the job behind it, of another requester, was admitted
BanAtDispatchTakesNoSlotWitness ==
    /\ Len(jobs) = 3
    /\ jobs[2].error_message = "User account banned"
    /\ jobs[2].input_file_path \notin files
    /\ notif[2] = <<"ban">>
    /\ launched[1] = 1 /\ launched[2] = 0 /\ launched[3] = 1
    /\ active_jobs = 2

\* ------------------------------------------------------------ history
\* The queue of one requester, who may be banned at any moment, with
\* deliveries that fail and with an INSERT into history that can raise.
HistoryNext ==
    \/ NotifyNext
    \/ \E j \in JobIds : WorkerHistoryError(j)

HistorySpec == Init /\ [][HistoryNext]_vars

\* the rows of the history written for job j
RowsOf(j) == {i \in DOMAIN history : history[i].job = j}

PastHistory(j) == wpc[j] \in {"wait_lock", "done"}

HandlerNext ==
    \/ ban_user(1)
    \/ \E sel \in Selections : start_auto_conversion(sel[1], sel[2], sel[3])
    \/ start_conversion
    \/ \E e \in UploadExtensions : handle_file(e)
    \/ DownloadFailed
    \/ Downloaded
    \/ \E delivered \in BOOLEAN : Replied(delivered)
    \/ process_queue
    \/ DispatcherWake
    \/ DispatcherLockGranted
    \/ DispatcherTimeout
    \/ DispatcherBanned
    \/ DispatcherBanNotified
    \/ DispatcherAdmit
    \/ DispatcherAdmitGranted
    \/ \E j \in JobIds : WorkerStart(j)
    \/ \E j \in JobIds : WorkerTimeout(j)
    \/ \E j \in JobIds, ok \in BOOLEAN : WorkerConverted(j, ok)
    \/ \E j \in JobIds : WorkerNotified(j)
    \/ \E j \in JobIds : WorkerLockGranted(j)

HandlerSpec == Init /\ [][HandlerNext]_vars

\* the step is the end of a download for which handle_file calls
\* process_file_directly
FollowUpArrives ==
    /\ hpc = "download"
    /\ hfile.path \in files'
    /\ udata.expecting_followup_upload

\* C38 as stated: the requester has selected a conversion through
\* start_auto_conversion, was asked for the file and is not banned; when
\* the upload that arrives has the extension of the selected source
\* format, one job is enqueued for it, with the selected output format,
\* and the upload is not refused.
FollowUpUploadEnqueued ==
    [][(/\ FollowUpArrives
        /\ udata.conversion_type = "auto"
        /\ hfile.extension = udata.input_format
        /\ ~banned[1])
       => /\ hpc' = "pfd_confirm"
          /\ Len(jobs') = Len(jobs) + 1
          /\ jobs'[Len(jobs')].input_file_path = hfile.path
          /\ queue' = Append(queue, Len(jobs'))
          /\ request' = Request(udata.input_format, udata.output_format)
      ]_vars

\* the positions of the handler inside process_file_directly
InProcessFileDirectly ==
    {"pfd_reply_ban", "pfd_reply_unset", "pfd_reply_mismatch", "pfd_confirm",
     "pfd_error_reply"}

\* add_to_queue has accepted a job for the upload the handler works on
UploadAccepted == \E j \in DOMAIN jobs : jobs[j].input_file_path = hfile.path

\* second part of C39: once add_to_queue has accepted the job, no step of
\* process_file_directly removes the input file of that job
AcceptedUploadKept ==
    (/\ hpc \in InProcessFileDirectly
     /\ hpc' # hpc
     /\ UploadAccepted
     /\ hfile.path \in files)
    => hfile.path \in files'

\* first part of C39: when process_file_directly is left and no job was
\* enqueued for the upload, the upload is off the disk
RefusedUploadRemoved ==
    (/\ hpc \in InProcessFileDirectly
     /\ hpc' \notin InProcessFileDirectly
     /\ ~UploadAccepted)
    => hfile.path \notin files'

\* C39 as stated: process_file_directly removes the upload on every path
\* on which no job is enqueued, and never removes the input file of a job
\* that add_to_queue has accepted.
UploadCleanup == [][RefusedUploadRemoved /\ AcceptedUploadKept]_vars

\* ------------------------------------------------------------ classification
\* the categories of SUPPORTED_FORMATS that list ext
CategoriesOf(ext) == {c \in DOMAIN SUPPORTED_FORMATS : ext \in SUPPORTED_FORMATS[c]}

\* what the converter of a category decides for a pair of formats
ConverterOf(category, output_format, input_extension) ==
    CASE category = "image" -> _convert_image(output_format, input_extension)
      [] category = "audio" -> _convert_audio(output_format, input_extension)
      [] category = "video" -> _convert_video(output_format, input_extension)
      [] category = "document" -> _convert_document(output_format, input_extension)
      [] OTHER -> _convert_presentation(output_format, input_extension)

\* C40: no extension is listed by two categories of SUPPORTED_FORMATS, and
\* for an input format that is listed the worker, the router, the upload
\* handler and the converter name the same category, the one that lists
\* it; so the timeout the worker takes is that of the category whose
\* converter convert_file hands the job to.
ClassificationConsistent ==
    /\ \A ext \in Formats : Cardinality(CategoriesOf(ext)) <= 1
    /\ \A i \in DOMAIN calls :
        LET c == calls[i]
            ext == c.request.input_type
        IN CategoriesOf(ext) # {} =>
            /\ CategoriesOf(ext) = {c.worker_category}
            /\ c.router_category = c.worker_category
            /\ c.detected_type = c.worker_category
            /\ c.converter_category = c.worker_category
            /\ get_conversion_timeout(c.worker_category)
                    = get_conversion_timeout(c.converter_category)
            /\ CategoriesOf(c.request.output_format) # {} =>
                    c.routed = ConverterOf(c.worker_category,
                                           c.request.output_format, ext)

\* a GIF to be converted to MP4 is an image for all four classifiers, is
\* handed to the image converter and gets the timeout of images
ClassificationConsistentWitness ==
    /\ calls # <<>>
    /\ calls[1].request = Request("gif", "mp4")
    /\ calls[1].worker_category = "image"
    /\ calls[1].converter_category = "image"
    /\ calls[1].routed = _convert_image("mp4", "gif")
    /\ get_conversion_timeout(calls[1].worker_category) = 300

====
